---- MODULE Spec2Model ----
(***************************************************************************)
(* A model of cij-subs (src/main.py): the selection-expression parser, the *)
(* retrying fetcher, the existing-ID scan, the catalog filter and the      *)
(* sequential run of main().                                               *)
(*                                                                         *)
(* Three specifications share the variables:                               *)
(*   Spec       one run of main() from the command line to its end;        *)
(*   SpecFetch  one call of fetch_with_backoff for every max_retries;      *)
(*   SpecParse  one call of validate_and_parse_input for every string.     *)
(*                                                                         *)
(* Strings are sequences of one-character strings.  Times are counted in   *)
(* units of 1/JitterRes second.                                            *)
(***************************************************************************)
EXTENDS Integers, Sequences, FiniteSets, TLC

\* ------------------------------------------------------------- bounds
MaxLen == 5            \* longest selection expression of SpecParse
MaxId == 2             \* video IDs of the catalog and the disk are 1..MaxId
MaxCatalogLen == 2     \* most entries in the catalog response
MaxRetriesBound == 5   \* SpecFetch calls with max_retries in 1..MaxRetriesBound
JitterRes == 2         \* random.uniform(0, 1) is drawn from {0, 1/R, .., (R-1)/R}

\* -------------------------------------------------- program constants
DefaultMaxRetries == 5    \* fetch_with_backoff(max_retries=5)
DefaultInitialDelay == 1  \* fetch_with_backoff(initial_delay=1)

\* ---------------------------------------------------------- strings
Digits == {"0", "1", "2", "3", "4", "5", "6", "7", "8", "9"}
Chars == {"1", "2", "-", ",", " ", "a", "l"}
AllStr == <<"a", "l", "l">>

\* int() of one decimal digit
DigitVal(c) ==
  CASE c = "0" -> 0 [] c = "1" -> 1 [] c = "2" -> 2 [] c = "3" -> 3
    [] c = "4" -> 4 [] c = "5" -> 5 [] c = "6" -> 6 [] c = "7" -> 7
    [] c = "8" -> 8 [] c = "9" -> 9

\* what int() accepts here: a non-empty run of decimal digits
IsDigits(s) == Len(s) > 0 /\ \A i \in 1..Len(s) : s[i] \in Digits

\* int(s) for a digit string, most significant digit first
RECURSIVE int(_)
int(s) ==
  IF Len(s) = 0 THEN 0
  ELSE 10 * int(SubSeq(s, 1, Len(s) - 1)) + DigitVal(s[Len(s)])

\* str.split(sep) with a one-character separator: the pieces between the
\* separators, empty pieces included
RECURSIVE SplitFrom(_, _, _, _)
SplitFrom(s, sep, i, cur) ==
  IF i > Len(s) THEN <<cur>>
  ELSE IF s[i] = sep THEN <<cur>> \o SplitFrom(s, sep, i + 1, <<>>)
  ELSE SplitFrom(s, sep, i + 1, Append(cur, s[i]))

Split(s, sep) == SplitFrom(s, sep, 1, <<>>)

\* "-" in part
Contains(s, c) == \E i \in 1..Len(s) : s[i] = c

\* re.fullmatch(r"^(\d+|\d+-\d+)(,(\d+|\d+-\d+))*$", s) as the automaton of
\* the pattern.  q = 0: a token must start; 1: in the first digit run;
\* 2: just after "-"; 3: in the second digit run.  Accepting: 1 and 3.
RECURSIVE PatternFrom(_, _, _)
PatternFrom(s, i, q) ==
  IF i > Len(s) THEN q \in {1, 3}
  ELSE LET c == s[i] IN
    CASE q = 0 -> c \in Digits /\ PatternFrom(s, i + 1, 1)
      [] q = 1 -> IF c \in Digits THEN PatternFrom(s, i + 1, 1)
                  ELSE IF c = "-" THEN PatternFrom(s, i + 1, 2)
                  ELSE IF c = "," THEN PatternFrom(s, i + 1, 0)
                  ELSE FALSE
      [] q = 2 -> c \in Digits /\ PatternFrom(s, i + 1, 3)
      [] q = 3 -> IF c \in Digits THEN PatternFrom(s, i + 1, 3)
                  ELSE IF c = "," THEN PatternFrom(s, i + 1, 0)
                  ELSE FALSE

FullMatch(s) == PatternFrom(s, 1, 0)

\* the two results of a call: a value or a raised exception
Returned(v) == [exc |-> "none", value |-> v, why |-> "none"]
Raised(e, w) == [exc |-> e, value |-> {}, why |-> w]

\* range(start, end + 1)
RangeMutant(start, end) == start .. (end - 1)
Range(start, end) == start .. end

\* the test of line 82
StartAfterEndMutant(start, end) == FALSE
StartAfterEnd(start, end) == start > end

\* the body of the loop over the parts (lines 80-86): the numbers one part adds
PartNumbers(part) ==
  IF Contains(part, "-")
  THEN LET pieces == Split(part, "-") IN
       IF Len(pieces) # 2 \/ \E k \in 1..Len(pieces) : ~IsDigits(pieces[k])
       THEN Raised("ValueError", "int")
       ELSE IF StartAfterEnd(int(pieces[1]), int(pieces[2]))
       THEN Raised("ValueError", "range")
       ELSE Returned(Range(int(pieces[1]), int(pieces[2])))
  ELSE IF ~IsDigits(part) THEN Raised("ValueError", "int")
  ELSE Returned({int(part)})

\* the loop of lines 79-86: parts i.. are added to numbers, the first part
\* that raises ends the call
RECURSIVE ParseParts(_, _, _)
ParseParts(parts, i, numbers) ==
  IF i > Len(parts) THEN Returned(numbers)
  ELSE LET r == PartNumbers(parts[i]) IN
       IF r.exc # "none" THEN r
       ELSE ParseParts(parts, i + 1, numbers \cup r.value)

validate_and_parse_input(input_str) ==
  IF input_str = AllStr THEN Returned({})
  ELSE IF ~FullMatch(input_str) THEN Raised("ValueError", "format")
  ELSE ParseParts(Split(input_str, ","), 1, {})

\* ------------------------------------------------------------ state
VARIABLES
  input_str,        \* args.ids
  pc,               \* where the run (or the single call) stands
  ids,              \* main's ids: [bound, v]; bound = FALSE until assigned
  error_printed,    \* line 121 printed "Error: ..."
  session,          \* "none" (never opened), "open", "closed"
  catalog,          \* the entries the server holds
  website_content,  \* main's website_content: [bound, v]
  files,            \* the files of transcripts/
  files0,           \* the files of transcripts/ when the run started
  videos,           \* main's videos
  idx,              \* the position of the loop of line 160 in videos
  attempted,        \* the video_ids process_video was called with, in order
  reports,          \* the "Video ID ..." lines printed, in order
  written,          \* the files this run created
  paces,            \* how often line 169 slept
  crash,            \* the exception that left main, or "none"
  url,              \* fetch_with_backoff's url
  max_retries,      \* fetch_with_backoff's max_retries
  attempt,          \* fetch_with_backoff's attempt
  delay,            \* fetch_with_backoff's delay (0 before the first sleep)
  gets,             \* session.get calls of this call
  sleeps,           \* time.sleep calls of this call
  fails,            \* failed session.get calls of this call
  fetch_result,     \* how the last call of fetch_with_backoff ended
  ret,              \* where the call of fetch_with_backoff returns to
  parse_result,     \* SpecParse: what validate_and_parse_input gave
  run,              \* SpecRuns: the number of this run of main
  prev,             \* SpecRuns: the IDs whose video failed in the run before,
                    \* [clean, dirty]: without and with a file left behind
  decimal_seconds,  \* SpecTime: decimal_to_vtt_time's argument
  vtt_time,         \* SpecTime: what decimal_to_vtt_time returned
  cues,             \* SpecTranscode: transcript_data["data"]["cues"]
  cue_idx,          \* SpecTranscode: how many cues the loop of line 49 has done
  raw,              \* SpecTranscode: process_video's raw
  vtt               \* SpecTranscode: process_video's vtt

vars == <<input_str, pc, ids, error_printed, session, catalog,
          website_content, files, files0, videos, idx, attempted, reports, written,
          paces, crash, url, max_retries, attempt, delay, gets, sleeps,
          fails, fetch_result, ret, parse_result, run, prev,
          decimal_seconds, vtt_time, cues, cue_idx, raw, vtt>>

mainVars == <<input_str, ids, error_printed, session, catalog,
              website_content, files, files0, videos, idx, attempted, reports,
              written, paces, crash, run, prev>>

callVars == <<url, max_retries, attempt, delay, gets, sleeps, fails,
              fetch_result, ret, parse_result>>

timeVars == <<decimal_seconds, vtt_time>>

transcodeVars == <<cues, cue_idx, raw, vtt>>

\* ------------------------------------------------------ value shapes
Ids == 1 .. MaxId
Unbound == [bound |-> FALSE, v |-> {}]
Bound(x) == [bound |-> TRUE, v |-> x]

NoPlan == [present |-> FALSE, hasTranscriptId |-> FALSE, transcriptId |-> 0]
PlanNoTranscript == [present |-> TRUE, hasTranscriptId |-> FALSE, transcriptId |-> 0]
PlanWith(t) == [present |-> TRUE, hasTranscriptId |-> TRUE, transcriptId |-> t]

\* the catalog entries of the model: entry i carries no plan, a plan without
\* a transcriptId, or a plan with transcriptId 10 + i
Entries ==
  {[id |-> i, plan |-> p] : i \in Ids, p \in {NoPlan, PlanNoTranscript}}
  \cup {[id |-> i, plan |-> PlanWith(10 + i)] : i \in Ids}

Catalogs == UNION {[1..n -> Entries] : n \in 0..MaxCatalogLen}

\* a file of transcripts/: whether its first whitespace-delimited token is an
\* integer, that integer, and its extension
File(i, e) == [numeric |-> TRUE, id |-> i, ext |-> e]
JunkVtt == [numeric |-> FALSE, id |-> 0, ext |-> "vtt"]
PairsOf(S) == {File(i, e) : i \in S, e \in {"vtt", "txt"}}
Strays == {JunkVtt, File(1, "txt")}
Disks ==
  {PairsOf(S) : S \in SUBSET Ids}
  \cup {PairsOf(S) \cup Strays : S \in SUBSET {MaxId}}

\* the command lines of Spec: all, 2, 1-2, 2-1 and "1, 2"
MainExprs ==
  {AllStr, <<"2">>, <<"1", "-", "2">>, <<"2", "-", "1">>,
   <<"1", ",", " ", "2">>}

Strings == UNION {[1..n -> Chars] : n \in 0..MaxLen}

ContentUrl == [kind |-> "content", transcriptId |-> 0]
TranscriptUrl(t) == [kind |-> "transcript", transcriptId |-> t]
NoUrl == [kind |-> "none", transcriptId |-> 0]

\* response.json(): the catalog, a transcript (its cues well-formed or not),
\* or None
ContentJson(c) == [json |-> "content", modules |-> c, cues |-> "none"]
TranscriptJson(q) == [json |-> "transcript", modules |-> <<>>, cues |-> q]
NoneJson == [json |-> "None", modules |-> <<>>, cues |-> "none"]

Responses(u) ==
  IF u.kind = "content" THEN {ContentJson(catalog)}
  ELSE {TranscriptJson("ok"), TranscriptJson("malformed")}

\* requests.exceptions.RequestException: raise_for_status() on a bad status,
\* or a transport error
Causes == {"HTTPError", "ConnectionError"}

NoResult == [kind |-> "none", value |-> NoneJson, attempts |-> 0, cause |-> "none"]
FetchReturned(v) == [kind |-> "return", value |-> v, attempts |-> 0, cause |-> "none"]
FetchRaised(n, c) == [kind |-> "raise", value |-> NoneJson, attempts |-> n, cause |-> c]

\* ------------------------------------------------- fetch_with_backoff
\* line 22
IsLastAttemptMutant(a, m) == a = m
IsLastAttempt(a, m) == a = m - 1

\* line 27, in units of 1/JitterRes second; jitter is the draw of
\* random.uniform(0, 1) in the same unit, 0 <= jitter < JitterRes
BackoffDelayMutant(initial_delay, a, jitter) == initial_delay * JitterRes + jitter
BackoffDelay(initial_delay, a, jitter) ==
  initial_delay * (2 ^ a) * JitterRes + jitter

\* the call: a fresh frame, control moves into the loop of line 16
CallFetch(u, r) ==
  /\ url' = u
  /\ max_retries' = max_retries
  /\ attempt' = 0
  /\ delay' = 0
  /\ gets' = 0
  /\ sleeps' = 0
  /\ fails' = 0
  /\ fetch_result' = NoResult
  /\ ret' = r
  /\ pc' = "fetch"

\* the call has returned its value to the caller: its frame is gone
PopFrame ==
  /\ url' = NoUrl
  /\ attempt' = 0
  /\ delay' = 0
  /\ gets' = 0
  /\ sleeps' = 0
  /\ fails' = 0
  /\ fetch_result' = NoResult
  /\ ret' = "none"
  /\ UNCHANGED max_retries

\* the frame of a call that raised stays as the exception holds it
KeepFrame ==
  UNCHANGED <<url, max_retries, attempt, delay, gets, sleeps, fails,
              fetch_result, ret>>

\* lines 18-20: the GET succeeds and its JSON is returned
FetchOk ==
  /\ pc = "fetch"
  /\ attempt < max_retries
  /\ \E v \in Responses(url) :
       /\ gets' = gets + 1
       /\ fetch_result' = FetchReturned(v)
       /\ pc' = ret
       /\ delay' = 0
  /\ UNCHANGED <<mainVars, timeVars, transcodeVars, url, max_retries, attempt, sleeps, fails, ret,
                 parse_result>>

\* lines 18-19, 21-29: the GET fails; the last attempt raises, any other
\* sleeps and goes round the loop, and a loop that runs out returns None
FetchFail ==
  /\ pc = "fetch"
  /\ attempt < max_retries
  /\ gets' = gets + 1
  /\ fails' = fails + 1
  /\ IF IsLastAttempt(attempt, max_retries)
     THEN \E cause \in Causes :
            /\ fetch_result' = FetchRaised(max_retries, cause)
            /\ pc' = ret
            /\ delay' = 0
            /\ UNCHANGED <<attempt, sleeps>>
     ELSE \E jitter \in 0 .. (JitterRes - 1) :
            /\ sleeps' = sleeps + 1
            /\ attempt' = attempt + 1
            /\ IF attempt + 1 < max_retries
               THEN /\ delay' = BackoffDelay(DefaultInitialDelay, attempt, jitter)
                    /\ UNCHANGED <<fetch_result, pc>>
               ELSE /\ delay' = 0
                    /\ fetch_result' = FetchReturned(NoneJson)
                    /\ pc' = ret
  /\ UNCHANGED <<mainVars, timeVars, transcodeVars, url, max_retries, ret, parse_result>>

\* --------------------------------------------------- get_existing_ids
\* lines 94-101: the .vtt files whose first token parses as an integer
get_existing_ids_mutant(fs) ==
  {f.id : f \in {g \in fs : g.ext = "vtt" /\ g.numeric
                             /\ File(g.id, "txt") \in fs}}
get_existing_ids(fs) ==
  {f.id : f \in {g \in fs : g.ext = "vtt" /\ g.numeric}}

\* ------------------------------------------------------------- main
\* lines 130-131: the greatest id of the catalog, 1 at least
RECURSIVE MaxIdFrom(_, _, _)
MaxIdFrom(modules, i, max_id) ==
  IF i > Len(modules) THEN max_id
  ELSE MaxIdFrom(modules, i + 1,
                 IF modules[i].id > max_id THEN modules[i].id ELSE max_id)

\* line 128: the test that takes the empty set for "all"
WantsAll(s) == Cardinality(s) = 0

\* lines 128-134
ResolveAllMutant(s, modules) ==
  IF WantsAll(s) THEN 1 .. MaxIdFrom(modules, 1, 0) ELSE s
ResolveAll(s, modules) ==
  IF WantsAll(s) THEN 1 .. MaxIdFrom(modules, 1, 1) ELSE s

\* lines 138-139
SubtractExistingMutant(s, existing_ids) == s
SubtractExisting(s, existing_ids) ==
  IF Cardinality(existing_ids) > 0 THEN s \ existing_ids ELSE s

\* lines 127-139: the emptiness test comes first, the subtraction second
ResolveIdsMutant(s, modules, existing_ids) ==
  ResolveAll(SubtractExisting(s, existing_ids), modules)
ResolveIds(s, modules, existing_ids) ==
  SubtractExisting(ResolveAll(s, modules), existing_ids)

\* lines 144-151: the entry passes the three tests
IncludedMutant(video, s) == video.id \in s /\ video.plan.present
Included(video, s) ==
  /\ video.id \in s
  /\ video.plan.present
  /\ video.plan.hasTranscriptId

\* lines 153-157; the title is left out, the files are told apart by ID
Video(video) ==
  [video_id |-> video.id, transcript_id |-> video.plan.transcriptId]

\* lines 142-157: the entries that pass, in the order of the catalog
RECURSIVE CollectVideos(_, _, _)
CollectVideos(modules, i, s) ==
  IF i > Len(modules) THEN <<>>
  ELSE IF Included(modules[i], s)
       THEN <<Video(modules[i])>> \o CollectVideos(modules, i + 1, s)
       ELSE CollectVideos(modules, i + 1, s)

\* line 120: except ValueError
ParseErrorCaught(exc) == exc = "ValueError"

\* lines 123-125: no handler surrounds the fetch of the catalog
CatalogErrorCaughtMutant(exc) == TRUE
CatalogErrorCaught(exc) == FALSE

\* line 164: except Exception
ItemErrorCaughtMutant(exc) == exc = "Exception"
ItemErrorCaught(exc) ==
  exc \in {"Exception", "KeyError", "TypeError", "OSError"}

\* an exception leaves main; the with statement closes an open session
Crash(exc) ==
  /\ pc' = "crashed"
  /\ crash' = exc
  /\ session' = IF session = "open" THEN "closed" ELSE session

\* lines 118-121
ParseArgs ==
  /\ pc = "start"
  /\ LET r == validate_and_parse_input(input_str) IN
       IF r.exc = "none"
       THEN /\ ids' = Bound(r.value)
            /\ pc' = "open_session"
            /\ UNCHANGED <<error_printed, crash, session>>
       ELSE IF ParseErrorCaught(r.exc)
       THEN /\ error_printed' = TRUE
            /\ pc' = "open_session"
            /\ UNCHANGED <<ids, crash, session>>
       ELSE /\ Crash(r.exc)
            /\ UNCHANGED <<ids, error_printed>>
  /\ UNCHANGED <<input_str, catalog, files0, run, prev, timeVars, transcodeVars, website_content, files, videos, idx,
                 attempted, reports, written, paces, url, max_retries,
                 attempt, delay, gets, sleeps, fails, fetch_result, ret,
                 parse_result>>

\* lines 123 and 125: the session opens and the catalog is asked for
OpenSession ==
  /\ pc = "open_session"
  /\ session' = "open"
  /\ CallFetch(ContentUrl, "catalog_ret")
  /\ UNCHANGED <<input_str, ids, error_printed, catalog, files0, run, prev, timeVars, transcodeVars, website_content,
                 files, videos, idx, attempted, reports, written, paces,
                 crash, parse_result>>

\* line 125: the call returns into website_content, or its exception
\* leaves main
CatalogFetched ==
  /\ pc = "catalog_ret"
  /\ IF fetch_result.kind = "raise"
     THEN IF CatalogErrorCaught("Exception")
          THEN /\ pc' = "resolve"
               /\ KeepFrame
               /\ UNCHANGED <<website_content, crash, session>>
          ELSE /\ Crash("Exception")
               /\ KeepFrame
               /\ UNCHANGED website_content
     ELSE /\ website_content' = Bound(fetch_result.value)
          /\ pc' = "resolve"
          /\ PopFrame
          /\ UNCHANGED <<crash, session>>
  /\ UNCHANGED <<input_str, ids, error_printed, catalog, files0, run, prev, timeVars, transcodeVars, files, videos, idx,
                 attempted, reports, written, paces, parse_result>>

\* lines 127-139
Resolve ==
  /\ pc = "resolve"
  /\ IF ~ids.bound
     THEN /\ Crash("UnboundLocalError")
          /\ UNCHANGED ids
     ELSE IF Cardinality(ids.v) = 0 /\ ~website_content.bound
     THEN /\ Crash("UnboundLocalError")
          /\ UNCHANGED ids
     ELSE IF Cardinality(ids.v) = 0 /\ website_content.v.json = "None"
     THEN /\ Crash("TypeError")
          /\ UNCHANGED ids
     ELSE /\ ids' = Bound(ResolveIds(ids.v,
                                     IF website_content.bound
                                     THEN website_content.v.modules ELSE <<>>,
                                     get_existing_ids(files)))
          /\ pc' = "filter"
          /\ UNCHANGED <<crash, session>>
  /\ UNCHANGED <<input_str, error_printed, catalog, files0, run, prev, timeVars, transcodeVars, website_content, files,
                 videos, idx, attempted, reports, written, paces, url,
                 max_retries, attempt, delay, gets, sleeps, fails,
                 fetch_result, ret, parse_result>>

\* lines 141-157
Filter ==
  /\ pc = "filter"
  /\ IF ~website_content.bound
     THEN /\ Crash("UnboundLocalError")
          /\ UNCHANGED <<videos, idx>>
     ELSE IF website_content.v.json = "None"
     THEN /\ Crash("TypeError")
          /\ UNCHANGED <<videos, idx>>
     ELSE /\ videos' = CollectVideos(website_content.v.modules, 1, ids.v)
          /\ idx' = 1
          /\ pc' = "next_item"
          /\ UNCHANGED <<crash, session>>
  /\ UNCHANGED <<input_str, ids, error_printed, catalog, files0, run, prev, timeVars, transcodeVars, website_content,
                 files, attempted, reports, written, paces, url, max_retries,
                 attempt, delay, gets, sleeps, fails, fetch_result, ret,
                 parse_result>>

\* line 160, and lines 162, 42-45 for the next video: process_video is
\* called and asks for the transcript; after the last video the with
\* block ends and main returns
NextItem ==
  /\ pc = "next_item"
  /\ IF idx <= Len(videos)
     THEN /\ attempted' = Append(attempted, videos[idx].video_id)
          /\ CallFetch(TranscriptUrl(videos[idx].transcript_id), "item_ret")
          /\ UNCHANGED session
     ELSE /\ pc' = "done"
          /\ session' = "closed"
          /\ UNCHANGED <<attempted, url, max_retries, attempt, delay, gets,
                         sleeps, fails, fetch_result, ret>>
  /\ UNCHANGED <<input_str, ids, error_printed, catalog, files0, run, prev, timeVars, transcodeVars, website_content,
                 files, videos, idx, reports, written, paces, crash,
                 parse_result>>

\* lines 164-165 when the handler takes the exception: the failure is
\* printed with the video's ID and the loop goes on to its sleep
\* (created: the files this call of process_video has created)
ItemRaises(exc, created) ==
  IF ItemErrorCaught(exc)
  THEN /\ reports' = Append(reports, [id |-> videos[idx].video_id,
                                      status |-> "Error",
                                      created |-> created])
       /\ pc' = "pace"
       /\ UNCHANGED <<crash, session>>
  ELSE /\ Crash(exc)
       /\ UNCHANGED reports

\* lines 45-56: the transcript is back (or the fetch raised) and the cues
\* are transcoded; a cue without its fields raises KeyError
ItemFetched ==
  /\ pc = "item_ret"
  /\ IF fetch_result.kind = "raise"
     THEN ItemRaises("Exception", {}) /\ KeepFrame
     ELSE IF fetch_result.value.json = "None"
     THEN ItemRaises("TypeError", {}) /\ PopFrame
     ELSE IF fetch_result.value.cues = "malformed"
     THEN ItemRaises("KeyError", {}) /\ PopFrame
     ELSE /\ pc' = "write_vtt"
          /\ PopFrame
          /\ UNCHANGED <<reports, crash, session>>
  /\ UNCHANGED <<input_str, ids, error_printed, catalog, files0, run, prev, timeVars, transcodeVars, website_content,
                 files, videos, idx, attempted, written, paces,
                 parse_result>>

\* what open(..., "w") and f.write can do
WriteOutcomes == {"ok", "open_fails", "write_fails"}

\* lines 58-60: open fails (no file), or the file is created and the write
\* fails, or the file is written
WriteVtt ==
  /\ pc = "write_vtt"
  /\ \E outcome \in WriteOutcomes :
       LET f == File(videos[idx].video_id, "vtt") IN
       /\ IF outcome = "open_fails"
          THEN UNCHANGED <<files, written>>
          ELSE /\ files' = files \cup {f}
               /\ written' = written \cup {f}
       /\ IF outcome = "ok"
          THEN /\ pc' = "write_txt"
               /\ UNCHANGED <<reports, crash, session>>
          ELSE ItemRaises("OSError",
                          IF outcome = "open_fails" THEN {} ELSE {f})
  /\ UNCHANGED <<input_str, ids, error_printed, catalog, files0, run, prev, timeVars, transcodeVars, website_content,
                 videos, idx, attempted, paces, url, max_retries, attempt,
                 delay, gets, sleeps, fails, fetch_result, ret, parse_result>>

\* lines 62-63, then line 163
WriteTxt ==
  /\ pc = "write_txt"
  /\ \E outcome \in WriteOutcomes :
       LET f == File(videos[idx].video_id, "txt") IN
       /\ IF outcome = "open_fails"
          THEN UNCHANGED <<files, written>>
          ELSE /\ files' = files \cup {f}
               /\ written' = written \cup {f}
       /\ IF outcome = "ok"
          THEN /\ reports' = Append(reports, [id |-> videos[idx].video_id,
                                              status |-> "Done",
                                              created |-> PairsOf({f.id})])
               /\ pc' = "pace"
               /\ UNCHANGED <<crash, session>>
          ELSE ItemRaises("OSError",
                          IF outcome = "open_fails"
                          THEN {File(f.id, "vtt")}
                          ELSE {File(f.id, "vtt"), f})
  /\ UNCHANGED <<input_str, ids, error_printed, catalog, files0, run, prev, timeVars, transcodeVars, website_content,
                 videos, idx, attempted, paces, url, max_retries, attempt,
                 delay, gets, sleeps, fails, fetch_result, ret, parse_result>>

\* line 169: one more time.sleep(1/5)
SleptMutant(n) == n
Slept(n) == n + 1

\* line 169, then the loop moves on
Pace ==
  /\ pc = "pace"
  /\ paces' = Slept(paces)
  /\ idx' = idx + 1
  /\ pc' = "next_item"
  /\ UNCHANGED <<input_str, ids, error_printed, session, catalog, files0, run, prev, timeVars, transcodeVars,
                 website_content, files, videos, attempted, reports, written,
                 crash, url, max_retries, attempt, delay, gets, sleeps, fails,
                 fetch_result, ret, parse_result>>

\* ------------------------------------------------ binary64 arithmetic
\* A float that is not negative is [whole, frac]: its integer part, and
\* the bits of its fractional part, the bit of 1/2 first, no trailing 0.
\* A binary64 holds Precision significant bits.
Precision == 53

RECURSIVE BitLen(_)
BitLen(n) == IF n = 0 THEN 0 ELSE 1 + BitLen(n \div 2)

\* the places of the bits that are b, and the last of them (0 for none)
Places(bits, b) == {i \in 1..Len(bits) : bits[i] = b}
LastPlace(bits, b) ==
  IF Places(bits, b) = {} THEN 0
  ELSE CHOOSE i \in Places(bits, b) : \A j \in Places(bits, b) : j <= i

\* without the trailing 0s
Strip(bits) == SubSeq(bits, 1, LastPlace(bits, 1))

LeadingZeros(bits) ==
  IF Places(bits, 1) = {} THEN Len(bits)
  ELSE (CHOOSE i \in Places(bits, 1) : \A j \in Places(bits, 1) : i <= j) - 1

\* how many bits of the fraction fit in the significand
Room(whole, bits) ==
  IF whole > 0 THEN Precision - BitLen(whole)
  ELSE LeadingZeros(bits) + Precision

\* one unit more in the last bit: [carry, bits]
Inc(bits) ==
  LET p == LastPlace(bits, 0) IN
  [carry |-> IF p = 0 THEN 1 ELSE 0,
   bits  |-> [i \in 1..Len(bits) |->
                IF i < p THEN bits[i] ELSE IF i = p THEN 1 ELSE 0]]

\* one unit less in the last bit, for bits that hold a 1
Dec(bits) ==
  LET p == LastPlace(bits, 1) IN
  [i \in 1..Len(bits) |->
     IF i < p THEN bits[i] ELSE IF i = p THEN 0 ELSE 1]

\* the float nearest to whole + 0.bits, a tie going to the even one: what
\* every binary64 operation does with its exact result
RoundNearest(whole, bits) ==
  LET k == Room(whole, bits) IN
  IF Len(bits) <= k THEN [whole |-> whole, frac |-> Strip(bits)]
  ELSE LET kept == SubSeq(bits, 1, k)
           half == bits[k + 1] = 1
           more == \E i \in (k + 2)..Len(bits) : bits[i] = 1
           odd  == IF k > 0 THEN kept[k] = 1 ELSE whole % 2 = 1
           r    == Inc(kept)
       IN IF half /\ (more \/ odd)
          THEN [whole |-> whole + r.carry, frac |-> Strip(r.bits)]
          ELSE [whole |-> whole, frac |-> Strip(kept)]

\* the bits of r / den (r < den), as many as a significand can hold and
\* one more; a last 1 stands for all that is left over
RECURSIVE Expand(_, _, _, _)
Expand(r, den, left, started) ==
  IF r = 0 THEN <<>>
  ELSE IF left = 0 THEN <<1>>
  ELSE LET b  == IF 2 * r >= den THEN 1 ELSE 0
           st == started \/ b = 1
       IN <<b>> \o Expand(2 * r - b * den, den,
                          IF st THEN left - 1 ELSE left, st)

\* line 45, response.json(): the float of the JSON number s + m / den
FromDecimal(s, m, den) ==
  RoundNearest(s, Expand(m, den, Precision + 1, s > 0))

\* the float j units in the last place below d (d has a fraction)
RECURSIVE Below(_, _)
Below(d, j) ==
  IF j = 0 THEN d
  ELSE LET k    == Room(d.whole, d.frac)
           full == d.frac \o [i \in 1..(k - Len(d.frac)) |-> 0]
       IN Below([whole |-> d.whole, frac |-> Strip(Dec(full))], j - 1)

\* line 32: int(x) of a float that is not negative
Trunc(x) == x.whole

\* line 33: x - n for n = int(x); the difference is a float, no rounding
Minus(x, n) == [whole |-> x.whole - n, frac |-> x.frac]

\* 1000 times 0.bits, exactly: [whole, frac].  From the last bit to the
\* first: 1000 * 0.b(i)b(i+1).. = (1000 * b(i) + 1000 * 0.b(i+1)..) / 2
RECURSIVE ExactThousandFrom(_, _, _, _)
ExactThousandFrom(bits, i, whole, frac) ==
  IF i = 0 THEN [whole |-> whole, frac |-> frac]
  ELSE ExactThousandFrom(bits, i - 1, (bits[i] * 1000 + whole) \div 2,
                         <<(bits[i] * 1000 + whole) % 2>> \o frac)

ExactThousand(bits) == ExactThousandFrom(bits, Len(bits), 0, <<>>)

\* line 33: x * 1000 for a float below 1, rounded as the product is
TimesThousand(x) ==
  LET p == ExactThousand(x.frac) IN RoundNearest(p.whole, p.frac)

\* ------------------------------------------------ decimal_to_vtt_time
DigitChars == <<"0", "1", "2", "3", "4", "5", "6", "7", "8", "9">>

\* str(n)
RECURSIVE Str(_)
Str(n) ==
  IF n < 10 THEN <<DigitChars[n + 1]>>
  ELSE Str(n \div 10) \o <<DigitChars[(n % 10) + 1]>>

\* f"{n:0wd}"
Pad(n, w) == [i \in 1..(w - Len(Str(n))) |-> "0"] \o Str(n)

\* lines 31-39
decimal_to_vtt_time(d) ==
  LET seconds0     == Trunc(d)
      milliseconds == Trunc(TimesThousand(Minus(d, seconds0)))
      hours        == seconds0 \div 3600
      minutes      == (seconds0 % 3600) \div 60
      seconds      == seconds0 % 60
  IN Pad(hours, 2) \o <<":">> \o Pad(minutes, 2) \o <<":">>
       \o Pad(seconds, 2) \o <<".">> \o Pad(milliseconds, 3)

\* the times of SpecTime: JSON numbers s + m / den and the floats up to
\* MaxUlps units in the last place below them
MaxUlps == 1
TimeWholes == {0, 1, 59, 3725}
TimeFractions ==
  {[m |-> 0, den |-> 1000], [m |-> 1, den |-> 1000],
   [m |-> 117, den |-> 1000], [m |-> 203, den |-> 1000],
   [m |-> 300, den |-> 1000], [m |-> 500, den |-> 1000],
   [m |-> 999, den |-> 1000], [m |-> 4567, den |-> 10000]}
Times ==
  UNION {{Below(FromDecimal(s, q.m, q.den), j) :
            j \in 0..(IF q.m = 0 THEN 0 ELSE MaxUlps)} :
           s \in TimeWholes, q \in TimeFractions}

Zero == [whole |-> 0, frac |-> <<>>]

IdleTime ==
  /\ decimal_seconds = Zero
  /\ vtt_time = <<>>

\* one call of decimal_to_vtt_time
FormatTime ==
  /\ pc = "call_format"
  /\ vtt_time' = decimal_to_vtt_time(decimal_seconds)
  /\ pc' = "formatted"
  /\ UNCHANGED <<mainVars, callVars, transcodeVars, decimal_seconds>>

\* ------------------------------------------------ the loop of process_video
NL == "\n"
Header == <<"W", "E", "B", "V", "T", "T", NL, NL>>
Arrow == <<" ", "-", "-", ">", " ">>

MaxCues == 2
Texts == {<<"A">>, <<"B">>, <<"C", NL, "D">>}
Spans ==
  {[start |-> FromDecimal(0, 0, 1000), end |-> FromDecimal(1, 500, 1000)],
   [start |-> FromDecimal(3725, 4567, 10000),
    end |-> Below(FromDecimal(3726, 117, 1000), 1)]}
Cues == [text : Texts, newParagraph : BOOLEAN, time : Spans]
Transcripts == UNION {[1..n -> Cues] : n \in 0..MaxCues}

IdleTranscode ==
  /\ cues = <<>>
  /\ cue_idx = 0
  /\ raw = <<>>
  /\ vtt = <<>>

\* line 49: enumerate counts from 0; k is the position in cues, from 1
IndexOfMutant(k) == k
IndexOf(k) == k - 1

\* lines 50-52
Block(k, cue) ==
  Str(IndexOf(k)) \o <<NL>>
    \o decimal_to_vtt_time(cue.time.start) \o Arrow
    \o decimal_to_vtt_time(cue.time.end) \o <<NL>>
    \o cue.text \o <<NL, NL>>

\* lines 54-56
RawStepMutant(r, cue) ==
  r \o cue.text \o (IF cue.newParagraph THEN <<NL>> ELSE <<>>)
RawStep(r, cue) ==
  (IF cue.newParagraph THEN r \o <<NL>> ELSE r) \o cue.text

\* lines 49-56: one turn of the loop
NextCue ==
  /\ pc = "transcode"
  /\ cue_idx < Len(cues)
  /\ vtt' = vtt \o Block(cue_idx + 1, cues[cue_idx + 1])
  /\ raw' = RawStep(raw, cues[cue_idx + 1])
  /\ cue_idx' = cue_idx + 1
  /\ UNCHANGED <<mainVars, callVars, timeVars, cues, pc>>

\* the loop is over: raw and vtt are what lines 60 and 63 write
EndOfCues ==
  /\ pc = "transcode"
  /\ cue_idx = Len(cues)
  /\ pc' = "transcoded"
  /\ UNCHANGED <<mainVars, callVars, timeVars, transcodeVars>>

\* ------------------------------------------------- the specifications
NoPrev == [clean |-> {}, dirty |-> {}]

\* what no call has touched yet
Fresh ==
  /\ ids = Unbound
  /\ error_printed = FALSE
  /\ session = "none"
  /\ website_content = Unbound
  /\ videos = <<>>
  /\ idx = 0
  /\ attempted = <<>>
  /\ reports = <<>>
  /\ written = {}
  /\ paces = 0
  /\ crash = "none"
  /\ attempt = 0
  /\ delay = 0
  /\ gets = 0
  /\ sleeps = 0
  /\ fails = 0
  /\ fetch_result = NoResult
  /\ parse_result = Returned({})
  /\ run = 1
  /\ prev = NoPrev

\* a run of main: any command line of MainExprs, any catalog, any disk
Init ==
  /\ pc = "start"
  /\ input_str \in MainExprs
  /\ catalog \in Catalogs
  /\ files \in Disks
  /\ files0 = files
  /\ max_retries = DefaultMaxRetries
  /\ ret = "none"
  /\ url = NoUrl
  /\ Fresh
  /\ IdleTime
  /\ IdleTranscode

Next ==
  \/ ParseArgs
  \/ OpenSession
  \/ FetchOk
  \/ FetchFail
  \/ CatalogFetched
  \/ Resolve
  \/ Filter
  \/ NextItem
  \/ ItemFetched
  \/ WriteVtt
  \/ WriteTxt
  \/ Pace

Spec == Init /\ [][Next]_vars

\* ---- runs of main one after the other over the same directory
MaxRuns == 2

\* lines 164-165: the videos of this run that ended in "Error", by whether
\* their call of process_video had created a file
ErrorsWith(dirty) ==
  {reports[k].id : k \in {j \in 1..Len(reports) :
                            /\ reports[j].status = "Error"
                            /\ (reports[j].created # {}) = dirty}}

\* line 172: main is called again; the directory and the server are as
\* the run before left them
Rerun ==
  /\ pc \in {"done", "crashed"}
  /\ run < MaxRuns
  /\ run' = run + 1
  /\ prev' = [clean |-> ErrorsWith(FALSE) \ ErrorsWith(TRUE),
              dirty |-> ErrorsWith(TRUE)]
  /\ pc' = "start"
  /\ input_str' \in MainExprs
  /\ files0' = files
  /\ ids' = Unbound
  /\ error_printed' = FALSE
  /\ session' = "none"
  /\ website_content' = Unbound
  /\ videos' = <<>>
  /\ idx' = 0
  /\ attempted' = <<>>
  /\ reports' = <<>>
  /\ written' = {}
  /\ paces' = 0
  /\ crash' = "none"
  /\ attempt' = 0
  /\ delay' = 0
  /\ gets' = 0
  /\ sleeps' = 0
  /\ fails' = 0
  /\ fetch_result' = NoResult
  /\ ret' = "none"
  /\ url' = NoUrl
  /\ UNCHANGED <<catalog, files, max_retries, parse_result, timeVars,
                 transcodeVars>>

\* the first run starts in an empty directory, the catalog has one entry
InitRuns ==
  /\ pc = "start"
  /\ input_str \in MainExprs
  /\ catalog \in {c \in Catalogs : Len(c) = 1}
  /\ files = {}
  /\ files0 = files
  /\ max_retries = DefaultMaxRetries
  /\ ret = "none"
  /\ url = NoUrl
  /\ Fresh
  /\ IdleTime
  /\ IdleTranscode

NextRuns ==
  \/ ParseArgs
  \/ OpenSession
  \/ FetchOk
  \/ FetchFail
  \/ CatalogFetched
  \/ Resolve
  \/ Filter
  \/ NextItem
  \/ ItemFetched
  \/ WriteVtt
  \/ WriteTxt
  \/ Pace
  \/ Rerun

SpecRuns == InitRuns /\ [][NextRuns]_vars

\* ---- a run of main on a command line that parses ("all" or a valid
\* expression), in a directory that is empty or holds the files of ID 1
InitValid ==
  /\ Init
  /\ input_str = AllStr \/ validate_and_parse_input(input_str).exc = "none"
  /\ files \in {{}, PairsOf({1})}

SpecValid == InitValid /\ [][Next]_vars

\* ---- one call of decimal_to_vtt_time, on any time of Times
InitTime ==
  /\ pc = "call_format"
  /\ input_str = <<>>
  /\ catalog = <<>>
  /\ files = {}
  /\ files0 = {}
  /\ max_retries = DefaultMaxRetries
  /\ ret = "none"
  /\ url = NoUrl
  /\ Fresh
  /\ decimal_seconds \in Times
  /\ vtt_time = <<>>
  /\ IdleTranscode

NextTime == FormatTime

SpecTime == InitTime /\ [][NextTime]_vars

\* ---- the loop of process_video, on any transcript of Transcripts
InitTranscode ==
  /\ pc = "transcode"
  /\ input_str = <<>>
  /\ catalog = <<>>
  /\ files = {}
  /\ files0 = {}
  /\ max_retries = DefaultMaxRetries
  /\ ret = "none"
  /\ url = NoUrl
  /\ Fresh
  /\ IdleTime
  /\ cues \in Transcripts
  /\ cue_idx = 0
  /\ raw = <<>>
  /\ vtt = Header

NextTranscode ==
  \/ NextCue
  \/ EndOfCues

SpecTranscode == InitTranscode /\ [][NextTranscode]_vars

\* one call fetch_with_backoff(session, url, max_retries=m), 1 <= m, for
\* the catalog or a transcript
FetchUrls == {ContentUrl} \cup {TranscriptUrl(10 + i) : i \in Ids}

InitFetch ==
  /\ pc = "fetch"
  /\ input_str = AllStr
  /\ catalog = <<>>
  /\ files = {}
  /\ files0 = {}
  /\ max_retries \in 1 .. MaxRetriesBound
  /\ ret = "returned"
  /\ Fresh
  /\ IdleTime
  /\ IdleTranscode
  /\ url \in FetchUrls

NextFetch ==
  \/ FetchOk
  \/ FetchFail

SpecFetch == InitFetch /\ [][NextFetch]_vars

\* one call validate_and_parse_input(s), s any string over Chars
CallParse ==
  /\ pc = "call_parse"
  /\ parse_result' = validate_and_parse_input(input_str)
  /\ pc' = "parsed"
  /\ UNCHANGED <<mainVars, timeVars, transcodeVars, url, max_retries, attempt, delay, gets, sleeps,
                 fails, fetch_result, ret>>

InitParse ==
  /\ pc = "call_parse"
  /\ input_str \in Strings
  /\ catalog = <<>>
  /\ files = {}
  /\ files0 = {}
  /\ max_retries = DefaultMaxRetries
  /\ ret = "none"
  /\ url = NoUrl
  /\ Fresh
  /\ IdleTime
  /\ IdleTranscode

NextParse == CallParse

SpecParse == InitParse /\ [][NextParse]_vars

\* ------------------------------------------------------- the claims
\* the grammar of the selection expression, token by token: a token is a
\* run of digits, or two runs of digits with one "-" between them
IsRangeToken(t) ==
  LET p == Split(t, "-") IN Len(p) = 2 /\ IsDigits(p[1]) /\ IsDigits(p[2])
IsToken(t) == IsDigits(t) \/ IsRangeToken(t)
Tokens(s) == Split(s, ",")
InGrammar(s) == \A k \in 1..Len(Tokens(s)) : IsToken(Tokens(s)[k])
RangeStart(t) == int(Split(t, "-")[1])
RangeEnd(t) == int(Split(t, "-")[2])
BadRange(t) == IsRangeToken(t) /\ RangeStart(t) > RangeEnd(t)
HasBadRange(s) == \E k \in 1..Len(Tokens(s)) : BadRange(Tokens(s)[k])
ValidExpr(s) == s # AllStr /\ InGrammar(s) /\ ~HasBadRange(s)
RejectedExpr(s) == s # AllStr /\ (~InGrammar(s) \/ HasBadRange(s))
TokenSet(t) ==
  IF IsDigits(t) THEN {int(t)}
  ELSE {n \in 0 .. RangeEnd(t) : RangeStart(t) <= n}

\* the IDs that had a .vtt file when the run started
HadVtt(i) == \E f \in files0 : f.numeric /\ f.id = i /\ f.ext = "vtt"

\* the run has resolved its IDs / has filtered the catalog
AfterFilter ==
  \/ pc \in {"next_item", "item_ret", "write_vtt", "write_txt", "pace", "done"}
  \/ (pc = "fetch" /\ url.kind = "transcript")
AfterResolve == pc = "filter" \/ AfterFilter

\* C1 (as stated): when parsing rejects the expression the run prints an
\* error and aborts before any network activity: no session is opened and
\* no GET is issued.
C1_RejectedRunMakesNoNetworkCall ==
  (RejectedExpr(input_str) /\ pc # "start") =>
    (error_printed /\ session = "none" /\ gets = 0)

\* C2 (as stated): a run whose explicit expression names only IDs that
\* already have a .vtt file has an empty work set and makes no network call
\* at all, the catalog GET included.
\* the IDs each valid command line of MainExprs names, worked out once
NamedIds ==
  [s \in {e \in MainExprs : ValidExpr(e)} |->
     UNION {TokenSet(Tokens(s)[k]) : k \in 1..Len(Tokens(s))}]
AllPresent ==
  /\ input_str \in DOMAIN NamedIds
  /\ \A n \in NamedIds[input_str] : HadVtt(n)
C2_AllPresentRunMakesNoNetworkCall ==
  AllPresent => (videos = <<>> /\ gets = 0 /\ url.kind = "none")

\* C2 (amended): such a run still fetches the catalog, and nothing else:
\* its resolved ID set and its work list are empty, no transcript is asked
\* for and no file is written.
C2_AllPresentRunFetchesOnlyCatalog ==
  AllPresent =>
    /\ AfterResolve => ids = Bound({})
    /\ videos = <<>>
    /\ attempted = <<>>
    /\ url.kind # "transcript"
    /\ written = {}
    /\ pc = "done" => (session = "closed" /\ website_content.bound)

C2_Witness ==
  /\ AllPresent
  /\ pc = "done"
  /\ \E i \in 1..Len(catalog) :
       catalog[i].plan.hasTranscriptId /\ ~HadVtt(catalog[i].id)

\* C3: when every GET of a call fails, the call makes exactly max_retries
\* GETs, sleeps exactly max_retries - 1 times, and ends by raising an error
\* that carries the number of attempts and the cause; it returns no value.
C3_AllFailRaisesAfterMaxRetries ==
  /\ fails <= max_retries
  /\ gets <= max_retries
  /\ fails = max_retries =>
       /\ pc = ret
       /\ fetch_result.kind = "raise"
       /\ gets = max_retries
       /\ sleeps = max_retries - 1
       /\ fetch_result.attempts = max_retries
       /\ fetch_result.cause \in Causes
  /\ fetch_result.kind = "raise" => fails = max_retries
  /\ (pc = "fetch" /\ fails = gets) => sleeps = fails

C3_Witness ==
  /\ max_retries = 3
  /\ fetch_result.kind = "raise"
  /\ gets = 3
  /\ sleeps = 2

\* C4: when the first k GETs fail and the next succeeds (k < max_retries),
\* the call returns that response's JSON after k + 1 GETs and k sleeps; the
\* sleep after failed attempt i lasts 2^i seconds plus a jitter in [0, 1),
\* so each sleep is strictly longer than the one before.
C4_ReturnState ==
  fetch_result.kind = "return" =>
    /\ fails < max_retries
    /\ gets = fails + 1
    /\ sleeps = fails
    /\ fetch_result.value \in Responses(url)
C4_DelayState ==
  (pc = "fetch" /\ sleeps >= 1) =>
    /\ delay >= (2 ^ (sleeps - 1)) * JitterRes
    /\ delay < (2 ^ (sleeps - 1) + 1) * JitterRes
C4_DelaysIncrease ==
  (pc = "fetch" /\ pc' = "fetch" /\ sleeps >= 1 /\ sleeps' = sleeps + 1) =>
    delay' > delay
C4_SuccessAfterRetries ==
  /\ [](C4_ReturnState /\ C4_DelayState)
  /\ [][C4_DelaysIncrease]_vars

C4_Witness ==
  /\ fetch_result.kind = "return"
  /\ fails = 2
  /\ gets = 3
  /\ sleeps = 2

\* C5: the videos are handled one after the other in the order of the work
\* list, each once; an exception of one video (fetch, cue, write) is caught,
\* printed as a failure with that video's ID, and the loop goes on: the run
\* never ends by an exception once the work list exists.
VideoIds == [i \in 1..Len(videos) |-> videos[i].video_id]
C5_ItemFailuresAreIsolated ==
  /\ Len(attempted) <= Len(videos)
  /\ attempted = SubSeq(VideoIds, 1, Len(attempted))
  /\ Len(reports) <= Len(attempted)
  /\ \A i \in 1..Len(reports) : reports[i].id = VideoIds[i]
  /\ AfterFilter =>
       /\ Len(attempted) =
            (IF pc \in {"next_item", "done"} THEN idx - 1 ELSE idx)
       /\ Len(reports) =
            (IF pc \in {"next_item", "pace", "done"} THEN Len(attempted)
             ELSE Len(attempted) - 1)
  /\ pc = "done" =>
       (Len(attempted) = Len(videos) /\ Len(reports) = Len(videos))
  /\ pc = "crashed" => (videos = <<>> /\ attempted = <<>>)

C5_Witness ==
  /\ pc = "done"
  /\ Len(reports) = 2
  /\ reports[1].status = "Error"
  /\ reports[2].status = "Done"
  /\ reports[1].id # reports[2].id

\* C6: when the fetch of the catalog ends by raising, the run ends there
\* with that exception: the IDs are as parsing left them, there is no
\* catalog, no work list, no transcript GET and no file written.
CatalogFailed == url.kind = "content" /\ fetch_result.kind = "raise"
C6_CatalogFailureAbortsRun ==
  CatalogFailed =>
    /\ pc \in {"catalog_ret", "crashed"}
    /\ pc = "crashed" => (crash = "Exception" /\ session = "closed")
    /\ ~website_content.bound
    /\ ids = (IF ValidExpr(input_str)
              THEN Bound(validate_and_parse_input(input_str).value)
              ELSE IF input_str = AllStr THEN Bound({}) ELSE Unbound)
    /\ videos = <<>>
    /\ attempted = <<>>
    /\ written = {}
    /\ files = files0

C6_Witness ==
  /\ CatalogFailed
  /\ pc = "crashed"
  /\ ids.bound
  /\ Len(catalog) > 0

\* C7: once the IDs are resolved, none of them had a .vtt file when the run
\* started; no work item, no transcript GET and no written file is for such
\* an ID.
C7_ExistingIdsAreSkipped ==
  /\ AfterResolve => \A i \in ids.v : ~HadVtt(i)
  /\ \A k \in 1..Len(videos) : ~HadVtt(videos[k].video_id)
  /\ \A k \in 1..Len(attempted) : ~HadVtt(attempted[k])
  /\ (pc \in {"fetch", "item_ret"} /\ url.kind = "transcript") =>
       (/\ idx \in 1..Len(videos)
        /\ url.transcriptId = videos[idx].transcript_id)
  /\ \A f \in written : ~HadVtt(f.id)

C7_Witness ==
  /\ pc = "done"
  /\ input_str = <<"1", "-", "2">>
  /\ written # {}
  /\ \E i \in 1..Len(catalog) :
       /\ HadVtt(catalog[i].id)
       /\ catalog[i].plan.hasTranscriptId

\* C8: for a valid expression other than "all", parse returns the union of
\* {n} for every single-number token n and start..end for every range
\* token, and nothing else.
C8_ParseReturnsUnion ==
  (pc = "parsed" /\ ValidExpr(input_str)) =>
    /\ parse_result.exc = "none"
    /\ parse_result.value =
         UNION {TokenSet(Tokens(input_str)[k]) : k \in 1..Len(Tokens(input_str))}

C8_Witness ==
  /\ pc = "parsed"
  /\ ValidExpr(input_str)
  /\ Len(Tokens(input_str)) = 2
  /\ \E k \in 1..2 :
       /\ IsRangeToken(Tokens(input_str)[k])
       /\ RangeStart(Tokens(input_str)[k]) < RangeEnd(Tokens(input_str)[k])
  /\ Cardinality(parse_result.value) = 2

\* C9: for every expression other than "all" that is outside the grammar or
\* holds a range with start > end, parse raises and returns no set, whatever
\* its other tokens are; nothing else changes.
C9_State ==
  (pc = "parsed" /\ RejectedExpr(input_str)) =>
    /\ parse_result.exc = "ValueError"
    /\ parse_result.value = {}
C9_Step == (pc = "call_parse") => UNCHANGED <<mainVars, timeVars, transcodeVars, url, gets, fetch_result>>
C9_ParseRejects ==
  /\ []C9_State
  /\ [][C9_Step]_vars

C9_Witness ==
  /\ pc = "parsed"
  /\ input_str = <<"1", ",", "2", "-", "1">>
  /\ parse_result.exc = "ValueError"
  /\ parse_result.why = "range"

\* C10: the work list holds, in the order of the catalog, exactly the
\* entries whose ID is in the resolved set and which carry a plan with a
\* transcript reference; the other entries are passed over without an
\* exception.
Wanted(e) == e.id \in ids.v /\ e.plan.present /\ e.plan.hasTranscriptId
WantedAt == {i \in 1..Len(catalog) : Wanted(catalog[i])}
C10_FilterKeepsWantedInOrder ==
  AfterFilter =>
    /\ Len(videos) = Cardinality(WantedAt)
    /\ \A i \in WantedAt :
         LET k == Cardinality({j \in WantedAt : j <= i}) IN
         /\ videos[k].video_id = catalog[i].id
         /\ videos[k].transcript_id = catalog[i].plan.transcriptId
    /\ crash = "none"

C10_Witness ==
  /\ pc = "done"
  /\ Len(catalog) = 2
  /\ catalog[1].id \in ids.v
  /\ catalog[1].plan.present
  /\ ~catalog[1].plan.hasTranscriptId
  /\ Len(videos) = 1
  /\ videos[1].video_id = catalog[2].id


\* C11: parse("all") gives the empty set without an error, and the run then
\* resolves the IDs to 1..maxId, maxId the greatest ID of all the entries
\* of the catalog (with or without a plan) and 1 for an empty catalog; the
\* IDs that had a .vtt file are then taken out.
CatalogMax ==
  CHOOSE m \in {1} \cup {catalog[i].id : i \in 1..Len(catalog)} :
    \A i \in 1..Len(catalog) : catalog[i].id <= m
BeforeResolve ==
  \/ pc \in {"open_session", "catalog_ret", "resolve"}
  \/ (pc = "fetch" /\ url.kind = "content")
C11_AllResolvesToOneToMax ==
  input_str = AllStr =>
    /\ pc # "start" => (ids.bound /\ ~error_printed)
    /\ BeforeResolve => ids = Bound({})
    /\ AfterResolve => ids.v = {i \in 1..CatalogMax : ~HadVtt(i)}
    /\ pc = "crashed" => CatalogFailed

C11_Witness ==
  /\ input_str = AllStr
  /\ pc = "done"
  /\ Len(catalog) = 2
  /\ catalog[1].id = 2
  /\ ~catalog[1].plan.present
  /\ catalog[2].id = 1
  /\ files0 = {}
  /\ ids.v = {1, 2}


\* C15: every video, failed or not, is followed by exactly one pause of
\* line 169 before the next video starts, so a transcript GET of video i + 1
\* comes after i pauses; a backoff sleep happens only inside a call of the
\* fetcher, after a failed GET and before another GET of the same URL.
C15_State ==
  AfterFilter =>
    /\ paces = idx - 1
    /\ paces = (IF pc = "pace" THEN Len(reports) - 1 ELSE Len(reports))
    /\ (pc = "fetch" /\ url.kind = "transcript") => paces = Len(attempted) - 1
C15_Step ==
  /\ paces' # paces => (pc = "pace" /\ pc' = "next_item" /\ paces' = paces + 1)
  /\ (pc = "pace" /\ pc' # pc) => paces' = paces + 1
  /\ sleeps' > sleeps =>
       /\ pc = "fetch" /\ pc' = "fetch"
       /\ sleeps' = sleeps + 1
       /\ gets' = gets + 1 /\ fails' = fails + 1
       /\ url' = url
       /\ attempt' < max_retries
       /\ paces' = paces
C15_Pacing ==
  /\ []C15_State
  /\ [][C15_Step]_vars

C15_Witness ==
  /\ pc = "fetch"
  /\ url.kind = "transcript"
  /\ idx = 2
  /\ paces = 1
  /\ sleeps = 1
  /\ reports[1].status = "Error"

\* C17 (as stated): the work list holds at most one work item per video ID,
\* whatever the catalog, one with several entries of the same ID included.
C17_WorkItemIdsUnique ==
  \A i, j \in 1..Len(videos) :
    i # j => videos[i].video_id # videos[j].video_id

\* C18: parse returns the empty set for "all" only: every other expression
\* it accepts gives a set with a number in it, so the emptiness test of the
\* run takes the catalog-wide resolution exactly for "all".
C18_EmptySetMeansAll ==
  (pc = "parsed" /\ parse_result.exc = "none") =>
    (WantsAll(parse_result.value) <=> input_str = AllStr)

C18_Witness ==
  /\ pc = "parsed"
  /\ input_str = <<"1", "-", "1">>
  /\ parse_result.exc = "none"
  /\ parse_result.value = {1}


\* C16: for a valid expression the run always ends, in Done or by the
\* exception of the catalog fetch, whatever GETs fail: no call makes more
\* than max_retries GETs, there is one call for the catalog and one per work
\* item, and a failed item never ends the run.  Termination is stated
\* through StepsLeft, a bound on the steps still to come that every step
\* lowers, and through the run never standing still before its end.
Terminal == pc \in {"done", "crashed"}
ItemSteps == max_retries + 5
StepsFor(n) == n * ItemSteps + 1
ItemsLeft == Len(videos) - idx + 1
StepsLeft ==
  CASE pc = "start" -> max_retries + 5 + StepsFor(Len(catalog))
    [] pc = "open_session" -> max_retries + 4 + StepsFor(Len(catalog))
    [] pc = "fetch" /\ url.kind = "content" ->
         (max_retries - attempt) + 3 + StepsFor(Len(catalog))
    [] pc = "catalog_ret" -> 3 + StepsFor(Len(catalog))
    [] pc = "resolve" -> 2 + StepsFor(Len(catalog))
    [] pc = "filter" -> 1 + StepsFor(Len(catalog))
    [] pc = "next_item" -> StepsFor(ItemsLeft)
    [] pc = "fetch" /\ url.kind = "transcript" ->
         (max_retries - attempt) + 4 + StepsFor(ItemsLeft - 1)
    [] pc = "item_ret" -> 4 + StepsFor(ItemsLeft - 1)
    [] pc = "write_vtt" -> 3 + StepsFor(ItemsLeft - 1)
    [] pc = "write_txt" -> 2 + StepsFor(ItemsLeft - 1)
    [] pc = "pace" -> 1 + StepsFor(ItemsLeft - 1)
    [] OTHER -> 0
C16_State ==
  /\ max_retries = DefaultMaxRetries
  /\ gets <= max_retries
  /\ Len(attempted) <= Len(videos)
  /\ StepsLeft >= 0
  /\ ~Terminal => ENABLED Next
  /\ (ValidExpr(input_str) \/ input_str = AllStr) =>
       /\ pc = "crashed" =>
            (CatalogFailed /\ crash = "Exception" /\ attempted = <<>>)
       /\ pc = "done" => Len(reports) = Len(videos)
C16_Step == StepsLeft' < StepsLeft
C16_RunTerminates ==
  /\ []C16_State
  /\ [][C16_Step]_vars

C16_Witness ==
  /\ pc = "done"
  /\ ValidExpr(input_str)
  /\ Len(reports) = 2
  /\ reports[1].status = "Error"
  /\ reports[2].status = "Error"


\* ------------------------------------------------------------- C19
\* what the command line of this run asks for, once "all" is resolved
Requested(i) ==
  LET r == validate_and_parse_input(input_str) IN
  /\ r.exc = "none"
  /\ IF WantsAll(r.value) THEN i \in 1..CatalogMax ELSE i \in r.value

\* lines 143-150: the catalog has an entry of this id with a transcript
Offered(i) ==
  \E k \in 1..Len(catalog) :
    /\ catalog[k].id = i
    /\ catalog[k].plan.present
    /\ catalog[k].plan.hasTranscriptId
HasFile(i, e) == File(i, e) \in files
ErrorReports == {k \in 1..Len(reports) : reports[k].status = "Error"}
InVideos(i) == \E k \in 1..Len(videos) : videos[k].video_id = i

C19_State ==
  /\ \A k \in 1..Len(reports) :
       LET r == reports[k] IN
       /\ r.created \subseteq PairsOf({r.id}) \cap files
       /\ r.status = "Done" => r.created = PairsOf({r.id})
       /\ r.created # {} => File(r.id, "vtt") \in r.created
  /\ \A f \in written :
       \/ \E k \in 1..Len(reports) : f \in reports[k].created
       \/ pc = "write_txt" /\ f = File(videos[idx].video_id, "vtt")
  /\ files0 \subseteq files
  /\ \A i \in prev.clean :
       /\ ~HadVtt(i)
       /\ (AfterFilter /\ Requested(i) /\ Offered(i)) => InVideos(i)
  /\ \A i \in prev.dirty :
       /\ HadVtt(i)
       /\ ~InVideos(i)

\* between the start of a video and the first write no file is created,
\* and no step ever removes a file
C19_Step ==
  /\ files \subseteq files'
  /\ pc \in {"next_item", "fetch", "item_ret"} => files' = files
  /\ (pc = "item_ret" /\ Len(reports') > Len(reports)) =>
       /\ reports'[Len(reports')].status = "Error"
       /\ reports'[Len(reports')].created = {}

C19_WitnessDirty ==
  /\ run = 2
  /\ pc = "done"
  /\ \E i \in prev.dirty : Requested(i) /\ Offered(i) /\ ~HasFile(i, "txt")


\* ------------------------------------------------------------- C13
\* the fields of a returned time: HH:MM:SS.mmm
WellFormedTime(t) ==
  /\ Len(t) = 12
  /\ t[3] = ":" /\ t[6] = ":" /\ t[9] = "."
  /\ \A i \in (1..12) \ {3, 6, 9} : t[i] \in {DigitChars[k] : k \in 1..10}
HoursOf(t) == int(SubSeq(t, 1, 2))
MinutesOf(t) == int(SubSeq(t, 4, 5))
SecondsOf(t) == int(SubSeq(t, 7, 8))
MillisOf(t) == int(SubSeq(t, 10, 12))

\* the fractional part times 1000, truncated: the integer part of the
\* exact product
TruncatedMillis(d) == ExactThousand(d.frac).whole

\* C13 (as stated): a time with whole part s and fractional part f is
\* returned as HH:MM:SS.mmm with HH = s div 3600, MM = (s mod 3600) div 60,
\* SS = s mod 60 and mmm = f * 1000 truncated, never rounded up, each field
\* zero-padded, mmm in 0..999; 3725.4567 gives 01:02:05.456.
C13_MillisecondsAreTruncated ==
  pc = "formatted" =>
    /\ WellFormedTime(vtt_time)
    /\ HoursOf(vtt_time) = decimal_seconds.whole \div 3600
    /\ MinutesOf(vtt_time) = (decimal_seconds.whole % 3600) \div 60
    /\ SecondsOf(vtt_time) = decimal_seconds.whole % 60
    /\ MillisOf(vtt_time) = TruncatedMillis(decimal_seconds)
    /\ MillisOf(vtt_time) \in 0..999
    /\ decimal_seconds = FromDecimal(3725, 4567, 10000) =>
         vtt_time = <<"0", "1", ":", "0", "2", ":", "0", "5", ".",
                      "4", "5", "6">>

\* ------------------------------------------------------------- C12
NewlineOf(k) == IF cues[k].newParagraph THEN 1 ELSE 0

\* where in raw the part of cue k begins
RECURSIVE RawOffset(_)
RawOffset(k) ==
  IF k = 1 THEN 0
  ELSE RawOffset(k - 1) + NewlineOf(k - 1) + Len(cues[k - 1].text)

InLoop == pc \in {"transcode", "transcoded"}

\* C12: raw is the texts of the cues in their order with nothing between
\* them but one newline just before the text of every cue flagged
\* newParagraph, the first cue included; [A, B flagged] gives "A\nB".
C12_PlainTextIsJoinedTexts ==
  InLoop =>
    /\ Len(raw) = RawOffset(cue_idx + 1)
    /\ \A k \in 1..cue_idx :
         LET o == RawOffset(k) IN
         /\ cues[k].newParagraph => raw[o + 1] = NL
         /\ SubSeq(raw, o + NewlineOf(k) + 1,
                   o + NewlineOf(k) + Len(cues[k].text)) = cues[k].text
    /\ ( /\ pc = "transcoded"
         /\ Len(cues) = 2
         /\ cues[1].text = <<"A">> /\ ~cues[1].newParagraph
         /\ cues[2].text = <<"B">> /\ cues[2].newParagraph )
       => raw = <<"A", NL, "B">>

\* a flagged first cue and an unflagged second one: raw starts with the
\* newline
C12_Witness ==
  /\ pc = "transcoded"
  /\ Len(cues) = 2
  /\ cues[1].newParagraph
  /\ ~cues[2].newParagraph
  /\ raw[1] = NL
  /\ Len(raw) = 1 + Len(cues[1].text) + Len(cues[2].text)

\* ------------------------------------------------------------- C14
TimingLine(cue) ==
  decimal_to_vtt_time(cue.time.start) \o Arrow
    \o decimal_to_vtt_time(cue.time.end)

\* where in vtt the block of cue k begins
RECURSIVE VttOffset(_)
VttOffset(k) ==
  IF k = 1 THEN Len(Header)
  ELSE VttOffset(k - 1) + Len(Str(k - 2)) + 1
         + Len(TimingLine(cues[k - 1])) + 1 + Len(cues[k - 1].text) + 2

\* the lines of s: what stands between its newlines
NewlinesUpTo(s, p) == Cardinality({q \in 1..p : s[q] = NL})
LineCount(s) == NewlinesUpTo(s, Len(s)) + 1
NewlineAt(s, j) ==
  IF j = 0 THEN 0
  ELSE IF j = LineCount(s) THEN Len(s) + 1
  ELSE CHOOSE p \in 1..Len(s) : s[p] = NL /\ NewlinesUpTo(s, p) = j
LineAt(s, j) == SubSeq(s, NewlineAt(s, j - 1) + 1, NewlineAt(s, j) - 1)

OneLineTexts == \A k \in 1..cue_idx : ~Contains(cues[k].text, NL)

\* C14: vtt is the header WEBVTT and a blank line and then one block for
\* each cue in their order; the block of the cue at position i, counted
\* from 0, is the index line i, the timing line start --> end, the text
\* line and a blank line.
C14_VttIsHeaderAndBlocks ==
  InLoop =>
    /\ SubSeq(vtt, 1, Len(Header)) = Header
    /\ Len(vtt) = VttOffset(cue_idx + 1)
    /\ \A k \in 1..cue_idx :
         SubSeq(vtt, VttOffset(k) + 1, VttOffset(k + 1)) =
           Str(k - 1) \o <<NL>> \o TimingLine(cues[k]) \o <<NL>>
             \o cues[k].text \o <<NL, NL>>
    /\ OneLineTexts =>
         /\ LineCount(vtt) = 4 * cue_idx + 3
         /\ LineAt(vtt, 1) = <<"W", "E", "B", "V", "T", "T">>
         /\ LineAt(vtt, 2) = <<>>
         /\ \A k \in 1..cue_idx :
              /\ LineAt(vtt, 4 * k - 1) = Str(k - 1)
              /\ LineAt(vtt, 4 * k) = TimingLine(cues[k])
              /\ Len(LineAt(vtt, 4 * k)) = 29
              /\ LineAt(vtt, 4 * k + 1) = cues[k].text
              /\ LineAt(vtt, 4 * k + 2) = <<>>

\* two cues of one line each are done: the second block has index line 1
C14_Witness ==
  /\ pc = "transcoded"
  /\ Len(cues) >= 2
  /\ OneLineTexts
  /\ LineAt(vtt, 3) = <<"0">>
  /\ LineAt(vtt, 7) = <<"1">>

====
